---- MODULE Spec2Model ----
(***************************************************************************)
(* UrlFragmentFetchServer (urlfragmentfetchserver.py): a temporary asyncio *)
(* localhost server.  One coroutine per accepted connection                *)
(* (__handle_connection), one background coroutine (__time_out_shutdown),  *)
(* and the caller blocked in start().  Every action below is one run of a  *)
(* coroutine from one await to the next, which is the unit asyncio runs    *)
(* atomically.  Time is counted in whole seconds (the period of the        *)
(* guard's sleep).                                                         *)
(*                                                                         *)
(* Text is a sequence of one-character strings.  The token SEP stands for  *)
(* the four bytes "\r\n\r\n".  The alphabet of the inputs is               *)
(*   k v  =  &  #  %  1 2 3 5 6 D                                          *)
(* so that the escapes %3D ("="), %25 ("%"), %23 ("#"), %26 ("&") and      *)
(* %D3, %DD (bytes that are no UTF-8 text) can all be written.             *)
(***************************************************************************)
EXTENDS Naturals, Integers, Sequences, FiniteSets, TLC

\* ------------------------------------------------------------------ bounds
\* Connections accepted in one session.
MaxConns == 2
\* Largest timeout (seconds) a session is constructed with.
MaxTimeout == 3
\* The clock stops counting here, past every deadline.
MaxTime == MaxTimeout + 2
\* Pairs in a mapping that is encoded and posted.
MaxPairs == 2
\* Segments in a fragment written by hand.
MaxSegs == 2
\* Header lines a GET request carries after its request line.
MaxHeaders == 2

Conns == 1..MaxConns

\* --------------------------------------------------------------- constants
MsgNone == "None"
MsgTimeout == "Took too long to be redirected to the localhost page."
MsgSuccess == "Successfully obtained url fragments"
MsgFailure == "Something went wrong when retrieving the url fragments"

SEP == "\\r\\n\\r\\n"

\* self.data = None
NoData == [present |-> FALSE, map |-> {}]

\* ------------------------------------------------------------ the parser
\* str.split(sep) / bytes.split(sep): the pieces between the separators,
\* always at least one piece.  P[i] is the split of the text from
\* position i on.
Split(s, sep) ==
    LET P[i \in 1..(Len(s) + 1)] ==
            IF i > Len(s) THEN << <<>> >>
            ELSE IF s[i] = sep THEN << <<>> >> \o P[i + 1]
            ELSE LET rest == P[i + 1]
                 IN  << <<s[i]>> \o Head(rest) >> \o Tail(rest)
    IN  P[1]

\* data.split(b'\r\n\r\n')[-1]
LastSegment(rawdata) ==
    LET parts == Split(rawdata, SEP) IN parts[Len(parts)]

\* urlparse(url).fragment: the text after the first '#', empty without one.
UrlFragment(url) ==
    LET parts == Split(url, "#")
    IN  IF Len(parts) = 1 THEN <<>>
        ELSE SubSeq(url, Len(parts[1]) + 2, Len(url))

HexDigits == {"0", "1", "2", "3", "4", "5", "6", "7", "8", "9",
              "A", "B", "C", "D", "E", "F", "a", "b", "c", "d", "e", "f"}

HexVal(d) ==
    CASE d = "0" -> 0 [] d = "1" -> 1 [] d = "2" -> 2 [] d = "3" -> 3
      [] d = "4" -> 4 [] d = "5" -> 5 [] d = "6" -> 6 [] d = "7" -> 7
      [] d = "8" -> 8 [] d = "9" -> 9
      [] d \in {"A", "a"} -> 10 [] d \in {"B", "b"} -> 11
      [] d \in {"C", "c"} -> 12 [] d \in {"D", "d"} -> 13
      [] d \in {"E", "e"} -> 14 [] d \in {"F", "f"} -> 15

\* The character of an unquoted byte.  A byte >= 0x80 that starts no valid
\* UTF-8 sequence decodes (errors='replace') to U+FFFD; with the hex digits
\* of the alphabet (1, 2, 3, 5, 6, D) no continuation byte, hence no valid
\* multi-byte sequence, can be written.
ByteChar(n) ==
    CASE n = 61 -> "="
      [] n = 38 -> "&"
      [] n = 35 -> "#"
      [] n = 37 -> "%"
      [] n = 49 -> "1"
      [] n = 50 -> "2"
      [] n = 51 -> "3"
      [] n = 53 -> "5"
      [] n = 54 -> "6"
      [] n = 68 -> "D"
      [] n = 107 -> "k"
      [] n = 118 -> "v"
      [] n >= 128 -> "U+FFFD"
      [] OTHER -> "chr" \o ToString(n)

\* urllib.parse.unquote: %XX with two hex digits becomes that byte, any
\* other % stays as it is; nothing raises.  U[i] is the text from position
\* i on, unquoted.
Unquote(s) ==
    LET U[i \in 1..(Len(s) + 1)] ==
            IF i > Len(s) THEN <<>>
            ELSE IF /\ s[i] = "%"
                    /\ i + 2 <= Len(s)
                    /\ s[i + 1] \in HexDigits
                    /\ s[i + 2] \in HexDigits
                 THEN <<ByteChar(16 * HexVal(s[i + 1]) + HexVal(s[i + 2]))>>
                          \o U[i + 3]
                 ELSE <<s[i]>> \o U[i + 1]
    IN  U[1]

\* Mutant of DictPut: a key that is already there keeps its first value.
DictPut_KeepsFirst(m, k, v) ==
    IF \E p \in m : p[1] = k THEN m ELSE m \cup {<<k, v>>}

\* final_data[key] = value on a dict kept as a set of <<key, value>> pairs.
DictPut(m, k, v) == {p \in m : p[1] # k} \cup {<<k, v>>}

\* The for loop of the try block: each fragment is unquoted, then split on
\* every '=', and pieces [0] and [1] are stored; a fragment without '=' has
\* no piece [1] (IndexError ends the loop).  D[i] is the outcome after the
\* first i fragments.
BuildDict(fragments) ==
    LET D[i \in 0..Len(fragments)] ==
            IF i = 0 THEN [ok |-> TRUE, map |-> {}]
            ELSE LET fragment_pair == Split(Unquote(fragments[i]), "=")
                 IN  IF ~D[i - 1].ok \/ Len(fragment_pair) < 2
                     THEN [ok |-> FALSE, map |-> {}]
                     ELSE [ok |-> TRUE,
                           map |-> DictPut(D[i - 1].map, fragment_pair[1],
                                           fragment_pair[2])]
    IN  D[Len(fragments)]

\* The try block of the POST branch on the bytes read: ok = no exception.
ParseBody(rawdata) ==
    BuildDict(Split(UrlFragment(LastSegment(rawdata)), "&"))


\* ------------------------------------------------------------------ inputs
\* What reader.readline() can return, by what the handler does with it: a
\* line starting with GET, one starting with POST, any other line, and the
\* empty line of a client that closed before sending anything.
Lines == {"GET", "POST", "OTHER", "EOF"}

\* What reader.read(4096) returns on a POST connection.
Bodies == { <<"k", SEP, "v", "#", "k", "=", "1", "&", "v", "=", "3">>,
            <<"#", "k", "=", "1", "&", "v">>,
            <<"#", "k", "%", "3", "D", "1">> }

NoBody == <<>>

\* What the served page posts back: window.location.href, the address the
\* browser was redirected to.  UrlPrefix stands for the request headers, the
\* blank line and the address up to its '#'.
UrlPrefix == <<"k", SEP, "v">>

PostBody(fragment) == UrlPrefix \o <<"#">> \o fragment

\* Segments joined by '&' into one fragment.
JoinAmp(segs) ==
    LET J[i \in 0..Len(segs)] ==
            IF i = 0 THEN <<>>
            ELSE IF i = 1 THEN segs[1]
            ELSE J[i - 1] \o <<"&">> \o segs[i]
    IN  J[Len(segs)]

\* Percent-encoding of one character: the reserved characters of the
\* alphabet become %XX, the others stay.
QuoteChar(ch) ==
    CASE ch = "%" -> <<"%", "2", "5">>
      [] ch = "#" -> <<"%", "2", "3">>
      [] ch = "&" -> <<"%", "2", "6">>
      [] ch = "=" -> <<"%", "3", "D">>
      [] OTHER -> <<ch>>

Quote(s) ==
    LET Q[i \in 0..Len(s)] ==
            IF i = 0 THEN <<>> ELSE Q[i - 1] \o QuoteChar(s[i])
    IN  Q[Len(s)]

\* Raw keys and values of the mappings a redirect carries: no '&' and no
\* '=' inside, the empty text included, and characters that need encoding.
RawStrings == {<<>>, <<"k">>, <<"%">>, <<"v", "#">>}

\* A mapping, as the list of its <<key, value>> pairs in the order they are
\* written into the fragment; no key twice.
Mappings ==
    {l \in UNION {[1..m -> RawStrings \X RawStrings] : m \in 0..MaxPairs} :
        \A i, j \in 1..Len(l) : i # j => l[i][1] # l[j][1]}

MapOf(l) == {l[i] : i \in 1..Len(l)}

\* k1=v1&k2=v2..., every key and value percent-encoded.
EncodeFragment(l) ==
    JoinAmp([i \in 1..Len(l) |-> Quote(l[i][1]) \o <<"=">> \o Quote(l[i][2])])

\* The bodies of the mappings, each with the mapping it encodes.
RoundTrip == {<<PostBody(EncodeFragment(l)), MapOf(l)>> : l \in Mappings}

\* Segments as a client can write them by hand: plain pairs, a repeated '=',
\* an escaped '=', malformed escapes, a bare key.
SegmentPool ==
    { <<"k", "=", "1">>,
      <<"k", "=", "3">>,
      <<"v", "=", "1">>,
      <<"k", "=", "1", "=", "3">>,
      <<"k", "=", "1", "%", "3", "D", "3">>,
      <<"k", "=", "%", "3">>,
      <<"v", "=", "%">>,
      <<"v">> }

SegmentLists == UNION {[1..m -> SegmentPool] : m \in 1..MaxSegs}

\* What reader.read(4096) returns in the sessions that exercise the parser.
ParserBodies ==
    {p[1] : p \in RoundTrip} \cup {PostBody(JoinAmp(l)) : l \in SegmentLists}

\* The outcome of the try block for each body, computed once and looked up.
ParsedBodies == [b \in Bodies \cup ParserBodies |-> ParseBody(b)]

Parsed(b) == ParsedBodies[b]

\* ------------------------------------------------------------------- state
VARIABLES
    keep_running,   \* self._keep_running
    connected,      \* self._connected
    timeout_time,   \* self._timeout_time
    server,         \* self._server: "None", "open" (listening), "closed"
    data,           \* self.data
    msg,            \* self.msg
    now,            \* time.time(), in seconds since the constructor ran
    mainPc,         \* the caller: "constructed", "serving", "returned", "failed"
    guardPc,        \* __time_out_shutdown: "none", "ready", "sleeping",
                    \*   "wait_closed", "done"
    timerFired,     \* the guard's asyncio.sleep(1) is over
    nAccepted,      \* connections accepted so far
    hpc,            \* per connection, the await its handler is suspended at
    line,           \* per connection, the request line its handler read
    body,           \* per connection, the bytes its handler read (POST)
    resp,           \* per connection, the responses written to its writer
    snap,           \* history: the session fields as they were when the
                    \*   connection was accepted (kept while it awaits its
                    \*   request line and nobody else changes the fields)
    atDeadline,     \* history: the handlers accepted before the deadline passed
                    \*   and still in flight
    assigns,        \* history: assignments made to self.data
    closes,         \* history: calls of self._server.close() by the guard
    unread          \* per connection (GET), the lines of the request, the
                    \*   blank line included, that the handler has left
                    \*   unread in the open stream

vars == <<keep_running, connected, timeout_time, server, data, msg, now,
          mainPc, guardPc, timerFired, nAccepted, hpc, line, body, resp,
          snap, atDeadline, assigns, closes, unread>>

\* The four fields a connection handler and the guard share.
Sess == <<connected, keep_running, data, msg>>

NoSnap == [ok |-> FALSE, sess |-> <<FALSE, FALSE, NoData, MsgNone>>]

InFlight(c) == hpc[c] \in {"readline", "readuntil", "read", "drain"}

\* atDeadline after a step of the handler of c that takes it to `to`.
StillAtDeadline(c, to) ==
    IF to \in {"done", "raised"} THEN atDeadline \ {c} ELSE atDeadline

\* snap after a step of `self` (0: not a handler): a waiting handler's
\* snapshot is dropped when somebody else changes the session fields.
SnapKept(self) ==
    [c \in Conns |-> IF c # self /\ Sess' # Sess THEN NoSnap ELSE snap[c]]

\* __init__: the deadline is fixed when the object is constructed.
Init ==
    /\ keep_running = TRUE
    /\ connected = FALSE
    /\ now = 0
    /\ timeout_time \in {now + t : t \in 1..MaxTimeout}
    /\ server = "None"
    /\ data = NoData
    /\ msg = MsgNone
    /\ mainPc = "constructed"
    /\ guardPc = "none"
    /\ timerFired = FALSE
    /\ nAccepted = 0
    /\ hpc = [c \in Conns |-> "idle"]
    /\ line = [c \in Conns |-> ""]
    /\ body = [c \in Conns |-> NoBody]
    /\ resp = [c \in Conns |-> 0]
    /\ snap = [c \in Conns |-> NoSnap]
    /\ atDeadline = {}
    /\ assigns = 0
    /\ closes = 0
    /\ unread = [c \in Conns |-> 0]

\* One second passes.  A sleeping guard becomes runnable.
Tick ==
    /\ mainPc \in {"constructed", "serving"}
    /\ now' = IF now < MaxTime THEN now + 1 ELSE now
    /\ timerFired' = (timerFired \/ guardPc = "sleeping")
    /\ atDeadline' = IF now < timeout_time /\ now' >= timeout_time
                     THEN {c \in Conns : InFlight(c)} ELSE atDeadline
    /\ UNCHANGED <<keep_running, connected, timeout_time, server, data, msg,
                   mainPc, guardPc, nAccepted, hpc, line, body, resp, snap,
                   assigns, closes, unread>>

\* start() -> __start_server: asyncio.start_server succeeds, the server is
\* saved and the guard is scheduled; the caller blocks in serve_forever().
Start ==
    /\ mainPc = "constructed"
    /\ mainPc' = "serving"
    /\ server' = "open"
    /\ guardPc' = "ready"
    /\ UNCHANGED <<keep_running, connected, timeout_time, data, msg, now,
                   timerFired, nAccepted, hpc, line, body, resp, snap,
                   atDeadline, assigns, closes, unread>>

\* Mutant of BindFail: the guard is scheduled although the bind failed.
BindFail_LaunchesGuard ==
    /\ mainPc = "constructed"
    /\ mainPc' = "failed"
    /\ guardPc' = "ready"
    /\ UNCHANGED <<keep_running, connected, timeout_time, server, data, msg,
                   now, timerFired, nAccepted, hpc, line, body, resp,
                   snap, atDeadline, assigns, closes, unread>>

\* start() -> __start_server: asyncio.start_server raises (port in use);
\* nothing catches it, start() raises.
BindFail ==
    /\ mainPc = "constructed"
    /\ mainPc' = "failed"
    /\ UNCHANGED <<keep_running, connected, timeout_time, server, data, msg,
                   now, guardPc, timerFired, nAccepted, hpc, line, body, resp,
                   snap, atDeadline, assigns, closes, unread>>

\* ------------------------------------------------------- the timeout guard
\* Mutant of GuardLoopCond: the loop forgets the connection flag.
GuardLoopCond_IgnoresConnected(k, c) == k

\* while self._keep_running or self._connected
GuardLoopCond(k, c) == k \/ c

\* Mutant of TimedOut: the deadline itself does not count as passed.
TimedOut_StrictlyAfter(t) == t > timeout_time

\* if time.time() >= self._timeout_time
TimedOut(t) == t >= timeout_time

\* The guard leaves its loop: self._server.close(), then it waits in
\* wait_closed().
GuardClose ==
    /\ server' = "closed"
    /\ closes' = closes + 1
    /\ guardPc' = "wait_closed"
    /\ timerFired' = FALSE

\* The guard goes (back) to sleep: await asyncio.sleep(1).
GuardSleep ==
    /\ guardPc' = "sleeping"
    /\ timerFired' = FALSE
    /\ UNCHANGED <<server, closes>>

\* The guard's first run: the loop test, then the first sleep.
GuardBegin ==
    /\ mainPc = "serving"
    /\ guardPc = "ready"
    /\ IF GuardLoopCond(keep_running, connected) THEN GuardSleep ELSE GuardClose
    /\ UNCHANGED <<keep_running, connected, timeout_time, data, msg, now,
                   mainPc, nAccepted, hpc, line, body, resp, snap, atDeadline,
                   assigns, unread>>

\* The guard wakes from its sleep: the deadline test, then the loop test,
\* then either the next sleep or the close.
GuardWake ==
    /\ mainPc = "serving"
    /\ guardPc = "sleeping"
    /\ timerFired
    /\ msg' = IF TimedOut(now) THEN MsgTimeout ELSE msg
    /\ keep_running' = IF TimedOut(now) THEN FALSE ELSE keep_running
    /\ IF GuardLoopCond(keep_running', connected) THEN GuardSleep ELSE GuardClose
    /\ UNCHANGED <<connected, data>>
    /\ snap' = SnapKept(0)
    /\ UNCHANGED <<timeout_time, now, mainPc, nAccepted, hpc, line, body,
                   resp, atDeadline, assigns, unread>>

\* -------------------------------------------------- the connection handler
\* A connection is accepted while the server listens; its handler starts:
\* self._connected = True, then it waits for the request line.  The guard,
\* scheduled before the caller first yields to the event loop, has begun.
Accept(c) ==
    /\ mainPc = "serving"
    /\ server = "open"
    /\ guardPc # "ready"
    /\ c = nAccepted + 1
    /\ nAccepted' = c
    /\ connected' = TRUE
    /\ hpc' = [hpc EXCEPT ![c] = "readline"]
    /\ UNCHANGED <<keep_running, data, msg>>
    /\ snap' = [SnapKept(c) EXCEPT ![c] = [ok |-> TRUE, sess |-> Sess]]
    /\ UNCHANGED <<timeout_time, server, now, mainPc, guardPc, timerFired,
                   line, body, resp, atDeadline, assigns, closes, unread>>

\* Where the handler goes after the request line: the GET branch, the POST
\* branch, or the end of the function (neither branch).
AfterLine(l) ==
    IF l = "GET" THEN "readuntil" ELSE IF l = "POST" THEN "read" ELSE "done"

\* reader.readline() returns l.
ReadLine(c, l) ==
    /\ mainPc = "serving"
    /\ hpc[c] = "readline"
    /\ line' = [line EXCEPT ![c] = l]
    /\ hpc' = [hpc EXCEPT ![c] = AfterLine(l)]
    /\ snap' = [snap EXCEPT ![c] = NoSnap]
    /\ UNCHANGED <<keep_running, connected, timeout_time, server, data, msg,
                   now, mainPc, guardPc, timerFired, nAccepted, body, resp,
                   assigns, closes, unread>>
    /\ atDeadline' = StillAtDeadline(c, AfterLine(l))

\* GET: the client sent h header lines and the blank line after the
\* request line.  reader.readuntil(b'\r\n') returns the first of these
\* h + 1 lines, h are left; the response and the page are written, then the
\* handler waits in drain().
ReadUntil(c, h) ==
    /\ mainPc = "serving"
    /\ hpc[c] = "readuntil"
    /\ hpc' = [hpc EXCEPT ![c] = "drain"]
    /\ resp' = [resp EXCEPT ![c] = @ + 1]
    /\ unread' = [unread EXCEPT ![c] = h]
    /\ UNCHANGED <<keep_running, connected, timeout_time, server, data, msg,
                   now, mainPc, guardPc, timerFired, nAccepted, line, body,
                   snap, assigns, closes>>
    /\ atDeadline' = StillAtDeadline(c, "drain")

\* The await the handler is suspended at raises: the client reset the
\* connection (ConnectionResetError) or, in readuntil, closed it before any
\* "\r\n" (IncompleteReadError).  No await is inside a try: the handler ends
\* where it is, and nothing after the await is run.
AwaitRaises(c) ==
    /\ mainPc = "serving"
    /\ InFlight(c)
    /\ hpc' = [hpc EXCEPT ![c] = "raised"]
    /\ snap' = [snap EXCEPT ![c] = NoSnap]
    /\ UNCHANGED <<keep_running, connected, timeout_time, server, data, msg,
                   now, mainPc, guardPc, timerFired, nAccepted, line, body,
                   resp, assigns, closes, unread>>
    /\ atDeadline' = StillAtDeadline(c, "raised")

\* Mutant of GetFinish: serving the page ends the session.
GetFinish_StopsSession(c) ==
    /\ mainPc = "serving"
    /\ hpc[c] = "drain"
    /\ line[c] = "GET"
    /\ connected' = FALSE
    /\ hpc' = [hpc EXCEPT ![c] = "done"]
    /\ keep_running' = FALSE
    /\ UNCHANGED <<data, msg>>
    /\ snap' = SnapKept(c)
    /\ UNCHANGED <<timeout_time, server, now, mainPc, guardPc, timerFired,
                   nAccepted, line, body, resp, assigns, closes>>
    /\ atDeadline' = StillAtDeadline(c, "done")
    /\ unread' = [unread EXCEPT ![c] = 0]

\* Mutant of GetFinish: serving the page re-arms the session.
GetFinish_Rearms(c) ==
    /\ mainPc = "serving"
    /\ hpc[c] = "drain"
    /\ line[c] = "GET"
    /\ connected' = FALSE
    /\ hpc' = [hpc EXCEPT ![c] = "done"]
    /\ keep_running' = TRUE
    /\ UNCHANGED <<data, msg>>
    /\ snap' = SnapKept(c)
    /\ UNCHANGED <<timeout_time, server, now, mainPc, guardPc, timerFired,
                   nAccepted, line, body, resp, assigns, closes>>
    /\ atDeadline' = StillAtDeadline(c, "done")
    /\ unread' = [unread EXCEPT ![c] = 0]

\* GET: drain() returns; writer.close() (the stream is gone, and what was
\* unread with it); self._connected = False.
GetFinish(c) ==
    /\ mainPc = "serving"
    /\ hpc[c] = "drain"
    /\ line[c] = "GET"
    /\ connected' = FALSE
    /\ hpc' = [hpc EXCEPT ![c] = "done"]
    /\ UNCHANGED <<keep_running, data, msg>>
    /\ snap' = SnapKept(c)
    /\ UNCHANGED <<timeout_time, server, now, mainPc, guardPc, timerFired,
                   nAccepted, line, body, resp, assigns, closes>>
    /\ atDeadline' = StillAtDeadline(c, "done")
    /\ unread' = [unread EXCEPT ![c] = 0]

\* POST: reader.read(4096) returns b; the try/except/finally runs (parse,
\* set data and msg or only msg, write the response); the handler waits in
\* drain().
PostRead(c, b) ==
    /\ mainPc = "serving"
    /\ hpc[c] = "read"
    /\ body' = [body EXCEPT ![c] = b]
    /\ LET r == Parsed(b)
       IN  /\ data' = IF r.ok THEN [present |-> TRUE, map |-> r.map] ELSE data
           /\ msg' = IF r.ok THEN MsgSuccess ELSE MsgFailure
           /\ assigns' = IF r.ok THEN assigns + 1 ELSE assigns
    /\ resp' = [resp EXCEPT ![c] = @ + 1]
    /\ hpc' = [hpc EXCEPT ![c] = "drain"]
    /\ UNCHANGED <<keep_running, connected>>
    /\ snap' = SnapKept(c)
    /\ UNCHANGED <<timeout_time, server, now, mainPc, guardPc, timerFired,
                   nAccepted, line, atDeadline, closes, unread>>

\* POST: drain() returns; writer.close(); self._keep_running = False;
\* self._connected = False.
PostFinish(c) ==
    /\ mainPc = "serving"
    /\ hpc[c] = "drain"
    /\ line[c] = "POST"
    /\ keep_running' = FALSE
    /\ connected' = FALSE
    /\ hpc' = [hpc EXCEPT ![c] = "done"]
    /\ UNCHANGED <<data, msg>>
    /\ snap' = SnapKept(c)
    /\ UNCHANGED <<timeout_time, server, now, mainPc, guardPc, timerFired,
                   nAccepted, line, body, resp, assigns, closes, unread>>
    /\ atDeadline' = StillAtDeadline(c, "done")

\* ------------------------------------------------------------ the caller
\* The close cancels serve_forever(); __start_server returns; asyncio.run
\* cancels what is left (the guard in wait_closed(), handlers at their
\* awaits, all outside any try) and start() returns self.data.
MainReturn ==
    /\ mainPc = "serving"
    /\ server = "closed"
    /\ mainPc' = "returned"
    /\ guardPc' = "done"
    /\ hpc' = [c \in Conns |-> IF InFlight(c) THEN "cancelled" ELSE hpc[c]]
    /\ snap' = [c \in Conns |-> NoSnap]
    /\ UNCHANGED <<keep_running, connected, timeout_time, server, data, msg,
                   now, timerFired, nAccepted, line, body, resp, assigns, closes, unread>>
    /\ atDeadline' = {}

HandlerStep(c) ==
    \/ \E l \in Lines : ReadLine(c, l)
    \/ \E h \in 0..MaxHeaders : ReadUntil(c, h)
    \/ AwaitRaises(c)
    \/ GetFinish(c)
    \/ \E b \in Bodies : PostRead(c, b)
    \/ PostFinish(c)

Next ==
    \/ Tick
    \/ Start
    \/ BindFail
    \/ GuardBegin
    \/ GuardWake
    \/ \E c \in Conns : Accept(c)
    \/ \E c \in Conns : HandlerStep(c)
    \/ MainReturn

Spec == Init /\ [][Next]_vars

\* The event loop runs every coroutine that can run, the clock advances,
\* and a client that was accepted sends what it sends (or closes); whether
\* a client connects at all, and whether start() is called, is left open.
FairSpec ==
    /\ Spec
    /\ WF_vars(Tick)
    /\ WF_vars(GuardBegin)
    /\ WF_vars(GuardWake)
    /\ WF_vars(MainReturn)
    /\ \A c \in Conns : WF_vars(HandlerStep(c))

\* The runs in which no client ever connects: the caller, the guard and
\* the clock alone.
IdleNext ==
    \/ Tick
    \/ Start
    \/ BindFail
    \/ GuardBegin
    \/ GuardWake
    \/ MainReturn

IdleFairSpec ==
    /\ Init
    /\ [][IdleNext]_vars
    /\ WF_vars(Tick)
    /\ WF_vars(GuardBegin)
    /\ WF_vars(GuardWake)
    /\ WF_vars(MainReturn)

\* The sessions that exercise the parser: one client connects and posts one
\* body, any of ParserBodies.
ParserNext ==
    \/ Start
    \/ GuardBegin
    \/ Accept(1)
    \/ ReadLine(1, "POST")
    \/ \E b \in ParserBodies : PostRead(1, b)
    \/ PostFinish(1)

ParserSpec == Init /\ [][ParserNext]_vars

\* ------------------------------------------------------------------ claims
Returned == mainPc = "returned"

\* The handler of c read a GET line, wrote the page and finished.
GetServed(c) == line[c] = "GET" /\ hpc[c] = "done"

\* The handler of c read a POST line and finished.
PostDone(c) == line[c] = "POST" /\ hpc[c] = "done"

\* The raw '&'-separated segments of the fragment of a POST body.
Segments(b) == Split(UrlFragment(LastSegment(b)), "&")

\* Some segment of the fragment holds no '=' character.
HasBareSegment(b) ==
    \E i \in 1..Len(Segments(b)) :
        \A j \in 1..Len(Segments(b)[i]) : Segments(b)[i][j] # "="

\* Every segment of the fragment holds exactly one '=' character and no
\* percent escape.
WellFormed(b) ==
    \A i \in 1..Len(Segments(b)) :
        /\ Cardinality({j \in 1..Len(Segments(b)[i]) : Segments(b)[i][j] = "="}) = 1
        /\ \A j \in 1..Len(Segments(b)[i]) : Segments(b)[i][j] # "%"

\* Some segment of the fragment holds a '%' that is not followed by two
\* hex digits.
HasMalformedEscape(b) ==
    \E i \in 1..Len(Segments(b)) :
        LET seg == Segments(b)[i]
        IN  \E j \in 1..Len(seg) :
                /\ seg[j] = "%"
                /\ ~(/\ j + 2 <= Len(seg)
                     /\ seg[j + 1] \in HexDigits
                     /\ seg[j + 2] \in HexDigits)

\* The handler of c read a POST line and ran its try/except/finally on the
\* body it read.
PostHandled(c) == line[c] = "POST" /\ hpc[c] \in {"drain", "done"}

\* C1: the session always terminates: once the deadline has passed and no
\* accepted exchange is in flight, start() eventually returns.
C1_SessionTerminates ==
    (mainPc = "serving" /\ now >= timeout_time /\ \A c \in Conns : ~InFlight(c))
        ~> Returned

\* C2: a connection whose first line starts with neither GET nor POST
\* (or is empty) leaves _connected, _keep_running, data and msg as they
\* were before it was accepted, and writes no response.  Checked at the
\* step that ends such a handler, when nobody else changed the fields
\* since the accept.
C2_NoiseChangesNothing ==
    [][\A c \in Conns :
          (hpc[c] = "readline" /\ hpc'[c] = "done" /\ snap[c].ok)
              => (Sess' = snap[c].sess /\ resp'[c] = 0)]_vars

\* C3: when start() has returned from a session in which a GET was served
\* and then a POST with a well-formed fragment was handled, data is the
\* parsed map and msg is the success message.
C3_EndToEndSuccess ==
    \A g, p \in Conns :
        (Returned /\ g < p /\ GetServed(g) /\ PostDone(p) /\ WellFormed(body[p]))
            => /\ data = [present |-> TRUE, map |-> ParseBody(body[p]).map]
               /\ msg = MsgSuccess

\* C4: a POST whose fragment has a segment with no '=' is a parse failure:
\* the step that handles the body leaves data as it was (absent when it
\* was absent), sets msg to the failure message and still writes the
\* response; the handler's last step sets _keep_running to False.
C4_BareKeyIsParseFailure ==
    [][\A c \in Conns :
          /\ (hpc[c] = "read" /\ hpc'[c] # "read" /\ mainPc' = "serving"
                  /\ HasBareSegment(body'[c]))
               => (data' = data /\ msg' = MsgFailure /\ resp'[c] = 1
                     /\ hpc'[c] = "drain")
          /\ (hpc[c] = "drain" /\ hpc'[c] = "done" /\ line[c] = "POST"
                  /\ HasBareSegment(body[c]))
               => ~keep_running']_vars

\* C5: timeout without connection.  With no client ever connecting, a
\* wake-up of the guard before the deadline leaves the listener open, its
\* first wake-up at or after the deadline closes it, start() then returns
\* with data absent and msg the timeout message, and it does return.
C5_TimeoutWithoutConnection ==
    /\ [][(guardPc = "sleeping" /\ timerFired /\ ~timerFired')
             => (server' = IF now >= timeout_time THEN "closed" ELSE "open")]_vars
    /\ [](Returned => (data = NoData /\ msg = MsgTimeout /\ now >= timeout_time))
    /\ (mainPc = "serving") ~> Returned

\* start() returned from a session nobody connected to.
C5_Witness ==
    Returned /\ nAccepted = 0 /\ msg = MsgTimeout /\ data = NoData /\ closes = 1

\* C6: a POST handler that was in flight when the deadline passed has
\* finished by the time the listener is closed.
C6_NoCloseDuringPost ==
    [][(server = "open" /\ server' = "closed")
          => \A c \in atDeadline :
                 ~(hpc[c] = "read" \/ (hpc[c] = "drain" /\ line[c] = "POST"))]_vars

\* C7: data is assigned at most once per session.
C7_DataAssignedAtMostOnce == assigns <= 1

\* C8: the guard closes the listener at most once, exactly once by the
\* time start() returns, and in the state in which it closes it
\* _keep_running and _connected are both False.
C8_ClosedOnceWhenIdle ==
    [][/\ closes' <= 1
       /\ (closes' # closes) => (~keep_running' /\ ~connected')
       /\ Returned' => closes' = 1]_vars

\* start() returned after a POST was handled and the guard timed out too.
C8_Witness ==
    /\ Returned
    /\ closes = 1
    /\ msg = MsgTimeout
    /\ \E c \in Conns : PostDone(c)

\* C9: when start() has returned, data is present exactly when msg is the
\* success message.
C9_StatusAgreesWithData ==
    Returned => (data.present <=> msg = MsgSuccess)

\* C10: _keep_running starts True, never goes from False back to True,
\* and is False when start() has returned.
C10_KeepRunningFallsOnce ==
    /\ keep_running = TRUE
    /\ [][(keep_running' => keep_running) /\ (Returned' => ~keep_running')]_vars

\* start() returned from a session that served a GET and handled a POST
\* before the deadline.
C10_Witness ==
    /\ Returned
    /\ ~keep_running
    /\ msg # MsgTimeout
    /\ \E g, p \in Conns : GetServed(g) /\ PostDone(p)

\* C11: parser round trip.  For every mapping (the empty one included)
\* whose raw keys and values hold no '&' and no '=', posting a body that
\* ends in its percent-encoded fragment captures a map equal to the mapping.
C11_ParserRoundTrip ==
    \A p \in RoundTrip :
        (PostHandled(1) /\ body[1] = p[1])
            => data = [present |-> TRUE, map |-> p[2]]

\* C12: each segment is split on its first '=' only and decoded after the
\* split: the key is the decoded text before the first '=', the value the
\* decoded whole remainder (k=1=3 and k=1%3D3 both give the value 1=3).
\* Stated for fragments in which every segment has an '=' and every escape
\* is well formed; of several segments with one key the last one counts.
C12_SplitOnFirstEqualsThenDecode ==
    LET segs == Segments(body[1])
        FirstEq(seg) ==
            CHOOSE i \in 1..Len(seg) :
                seg[i] = "=" /\ \A j \in 1..(i - 1) : seg[j] # "="
        Key(seg) == Unquote(SubSeq(seg, 1, FirstEq(seg) - 1))
        Value(seg) == Unquote(SubSeq(seg, FirstEq(seg) + 1, Len(seg)))
    IN  (/\ PostHandled(1)
         /\ ~HasBareSegment(body[1])
         /\ ~HasMalformedEscape(body[1]))
            => /\ data.present
               /\ \A i \in 1..Len(segs) :
                      (\A j \in (i + 1)..Len(segs) : Key(segs[j]) # Key(segs[i]))
                          => <<Key(segs[i]), Value(segs[i])>> \in data.map

\* C13: a segment with a malformed percent escape makes the POST a parse
\* failure: data stays absent and msg is the failure message.
C13_MalformedEscapeIsParseFailure ==
    (PostHandled(1) /\ HasMalformedEscape(body[1]))
        => (data = NoData /\ msg = MsgFailure)

\* C14: when one key occurs in several segments of a fragment, the captured
\* map holds exactly one entry for it, with the value of its last
\* occurrence.  The key and value of an occurrence are what that segment
\* yields when it is posted alone.
C14_LastOccurrenceWins ==
    LET segs == Segments(body[1])
        Alone(i) == ParseBody(PostBody(segs[i])).map
        KeyOf(i) == (CHOOSE p \in Alone(i) : TRUE)[1]
    IN  (PostHandled(1) /\ data.present)
            => \A i \in 1..Len(segs) :
                   LET same == {j \in 1..Len(segs) : KeyOf(j) = KeyOf(i)}
                       last == CHOOSE j \in same : \A n \in same : n <= j
                   IN  {p \in data.map : p[1] = KeyOf(i)} = Alone(last)

\* A POST of k=1&k=3 was handled and the captured map is {k: 3}.
C14_Witness ==
    /\ PostHandled(1)
    /\ body[1] = PostBody(<<"k", "=", "1", "&", "k", "=", "3">>)
    /\ data = [present |-> TRUE, map |-> {<<(<<"k">>), (<<"3">>)>>}]

\* C15: when binding the port fails, start() fails at once: the failure
\* is final (no retry), the guard is never launched, no connection is ever
\* handled, and data and msg are left unset.
C15_BindFailureIsFatal ==
    /\ [](mainPc = "failed"
            => /\ guardPc = "none"
               /\ server = "None"
               /\ nAccepted = 0
               /\ closes = 0
               /\ data = NoData
               /\ msg = MsgNone)
    /\ [][mainPc = "failed" => mainPc' = "failed"]_vars

\* start() raised the startup error.
C15_Witness == mainPc = "failed" /\ server = "None" /\ guardPc = "none"

\* C16: serving a GET leaves _keep_running, data and msg unchanged, and a
\* GET handler that runs to its end ends with _connected False; so while the deadline has not passed and
\* every connection accepted so far is a served GET, the listener is open
\* and accepts the next connection (the follow-up POST).
C16_GetLeavesSessionOpen ==
    /\ [][\A c \in Conns :
             (/\ line'[c] = "GET"
              /\ hpc[c] \in {"readline", "readuntil", "drain"}
              /\ hpc'[c] # hpc[c]
              /\ mainPc' = "serving")
                 => /\ keep_running' = keep_running
                    /\ data' = data
                    /\ msg' = msg
                    /\ (hpc'[c] = "done" => ~connected')]_vars
    /\ []((/\ mainPc = "serving"
           /\ now < timeout_time
           /\ nAccepted >= 1
           /\ \A c \in 1..nAccepted : GetServed(c))
              => /\ server = "open"
                 /\ keep_running
                 /\ ~connected
                 /\ (nAccepted < MaxConns => ENABLED Accept(nAccepted + 1)))

\* A GET was served and, before the deadline, the follow-up POST was
\* accepted and its request line read.
C16_Witness ==
    /\ GetServed(1)
    /\ line[2] = "POST"
    /\ hpc[2] = "read"
    /\ now < timeout_time
    /\ keep_running
    /\ server = "open"

\* C17: every POST handler, whether the parse succeeds or fails, writes
\* exactly one response; the step that writes it leaves _keep_running and
\* _connected as they are, and only after the flush and the close are both
\* set to False; however a POST handler ends, it has written one response
\* and it leaves both flags False.
C17_PostRespondsThenStops ==
    [][\A c \in Conns :
          /\ (hpc[c] = "read" /\ hpc'[c] = "drain")
                 => /\ resp[c] = 0
                    /\ resp'[c] = 1
                    /\ keep_running' = keep_running
                    /\ connected' = connected
          /\ (line[c] = "POST" /\ hpc[c] \in {"read", "drain"}
                  /\ hpc'[c] \in {"done", "raised"})
                 => /\ resp'[c] = 1
                    /\ ~keep_running'
                    /\ ~connected']_vars

\* C18: the deadline is the time at which start() is called plus the
\* configured timeout and never changes afterwards, so that an idle listener
\* stays open for the whole timeout however long the caller waited before
\* start().  The constructor runs at time 0 (Init) and the deadline is
\* never reassigned, so the configured timeout is timeout_time - 0; the
\* claim is that when start() is called the time left until the deadline
\* is that whole timeout.
C18_DeadlineCountsFromStart ==
    /\ [][timeout_time' = timeout_time]_vars
    /\ [][(mainPc = "constructed" /\ mainPc' = "serving")
             => timeout_time' - now' = timeout_time - 0]_vars

\* C19: on a GET with any number of header lines the handler has read
\* every line of the request, the blank line included, when it writes the
\* response, and a handler that runs to its end leaves _connected False.
C19_GetConsumesAllHeaders ==
    [][\A c \in Conns :
          /\ (hpc[c] = "readuntil" /\ resp'[c] > resp[c]) => unread'[c] = 0
          /\ (line[c] = "GET" /\ hpc[c] = "drain" /\ hpc'[c] = "done")
                 => ~connected']_vars

====
